---- MODULE Spec2Model ----
(***************************************************************************)
(* The qio "schedule" command: fetch the calendar's events, build the      *)
(* 7 x 48 office-hours grid with form_schedule, PUT it to the queue.       *)
(*                                                                         *)
(* Python values are modelled as follows.  A str is a sequence of          *)
(* one-character strings; a list is a sequence (Python index i is TLA+     *)
(* index i+1).  A dateTime field of an event is a record                   *)
(*   [kind, ord, hour, minute, off]                                        *)
(* kind = "iso" when the text matches %Y-%m-%dT%H:%M:%S%z (ord is the      *)
(* proleptic Gregorian ordinal of its date, off its UTC offset in          *)
(* minutes), "malformed" when it does not, "missing" when the key is       *)
(* absent.                                                                 *)
(***************************************************************************)
EXTENDS Integers, Sequences, FiniteSets, TLC

VARIABLES pc, gcal_id, response, items, oh_sessions, parsed, schedule, k,
          result, error, putCount, putBody,
          \* auth-file discovery: the function that runs, the process's
          \* directories, the files that exist, the argument, the path
          \* probed last, the generator's current_dir, the value returned
          apc, fn, cwd, home, files, filename, path, current_dir, auth,
          \* a request of a QueueAPIClient: the module of the class, the
          \* method, the client's api_session, the caller's headers argument
          \* and do_request's local headers, the requests handed to the requests library
          rpc, client, method, api_session, kwargs, headers, sent

schedVars == <<pc, gcal_id, response, items, oh_sessions, parsed, schedule, k,
               result, error, putCount, putBody>>

authVars == <<apc, fn, cwd, home, files, filename, path, current_dir, auth>>

reqVars == <<rpc, client, method, api_session, kwargs, headers, sent>>

vars == <<schedVars, authVars, reqVars>>

\* ------------------------------------------------------------- bounds

\* Longest event list a calendar response carries in the model.
MaxEvents == 3

\* ---------------------------------------------------------- constants

NumDays == 7

NumSlots == 48

\* ------------------------------------------------------ Python helpers

Min(a, b) == IF a < b THEN a ELSE b

Max(a, b) == IF a > b THEN a ELSE b

\* ["o" for i in range(n)]: empty when n <= 0.
Repeat(c, n) == [i \in 1..n |-> c]

\* The needle occurs in the haystack (Python's `needle in haystack` on str).
Contains(needle, hay) ==
    \E i \in 1..(Len(hay) - Len(needle) + 1) :
        SubSeq(hay, i, i + Len(needle) - 1) = needle

\* Mutant: the cells outside the slice are reset to "c".
SliceAssign_Reset(lst, start, stop, vals) ==
    [j \in 1..Len(lst) |-> IF start < j /\ j <= stop THEN "o" ELSE "c"]

\* lst[start:stop] = vals for non-negative start, stop: both are clipped to
\* the length, a stop before the start counts as the start.
SliceAssign(lst, start, stop, vals) ==
    LET lo == Min(start, Len(lst))
        hi == Max(lo, Min(stop, Len(lst)))
    IN  SubSeq(lst, 1, lo) \o vals \o SubSeq(lst, hi + 1, Len(lst))

\* "".join(x) of a list of one-character strings: character i of the
\* result is element i of the list.
Join(x) == [i \in 1..Len(x) |-> x[i]]

\* datetime.weekday(): Monday = 0 .. Sunday = 6; ordinal 1 is a Monday.
Weekday(ts) == (ts.ord + 6) % 7

\* ------------------------------------------------- utils.form_schedule

OfficeHours == <<"O", "f", "f", "i", "c", "e", " ", "H", "o", "u", "r", "s">>

\* Mutant: the half hour itself counts as the first half.
timestamp_to_half_hour_idx_Le(timestamp) ==
    timestamp.hour * 2 + (IF timestamp.minute <= 30 THEN 0 ELSE 1)

timestamp_to_half_hour_idx(timestamp) ==
    timestamp.hour * 2 + (IF timestamp.minute < 30 THEN 0 ELSE 1)

\* Mutant: the summary is read whatever the status.
FilterRaises_NoShortCircuit(x) == ~x.hasSummary

\* The filter lambda raises KeyError when it has to read a summary that is
\* absent (the status test short-circuits for a cancelled event).
FilterRaises(x) == x.status # "cancelled" /\ ~x.hasSummary

\* Mutant: the status is not looked at.
Keep_AnyStatus(x) == Contains(OfficeHours, x.summary)

Keep(x) == x.status # "cancelled" /\ Contains(OfficeHours, x.summary)

\* x['start']['dateTime'] then strptime: KeyError or ValueError, or the
\* datetime (the wall-clock fields as written, no zone conversion).
ParseRaises(raw) == raw.kind # "iso"

ParseError(raw) == IF raw.kind = "missing" THEN "KeyError" ELSE "ValueError"

strptime(raw) ==
    [ord |-> raw.ord, hour |-> raw.hour, minute |-> raw.minute, off |-> raw.off]

ParseSession(x) ==
    [summary |-> x.summary, start |-> strptime(x.start), end |-> strptime(x.end)]

\* Mutant: only the start is checked.
SessionRaises_StartOnly(x) == ParseRaises(x.start)

SessionRaises(x) == ParseRaises(x.start) \/ ParseRaises(x.end)

SessionError(x) ==
    IF ParseRaises(x.start) THEN ParseError(x.start) ELSE ParseError(x.end)

EmptySchedule == [i \in 1..NumDays |-> [j \in 1..NumSlots |-> "c"]]

\* Mutant: the weekday is used as it is, Monday first.
DayOf_MondayFirst(event) == Weekday(event.start)

\* Mutant: the day is taken from the end of the event.
DayOf_FromEnd(event) == (Weekday(event.end) + 1) % 7

DayOf(event) == (Weekday(event.start) + 1) % 7

\* Mutant: one "o" too many is assigned to the slice.
MarkEvent_OneMore(sched, event) ==
    LET start == timestamp_to_half_hour_idx(event.start)
        end   == timestamp_to_half_hour_idx(event.end)
        day   == DayOf(event)
    IN  [sched EXCEPT ![day + 1] =
            SliceAssign(@, start, end, Repeat("o", end - start + 1))]

\* Mutant: the row is overwritten with the event's own slots, closed elsewhere.
MarkEvent_Overwrite(sched, event) ==
    LET start == timestamp_to_half_hour_idx(event.start)
        end   == timestamp_to_half_hour_idx(event.end)
        day   == DayOf(event)
    IN  [sched EXCEPT ![day + 1] =
            [j \in 1..NumSlots |->
                IF start < j /\ j <= end THEN "o" ELSE "c"]]

\* Mutant: an event that ends on a later day is marked to the end of its
\* start day.
MarkEvent_ToMidnight(sched, event) ==
    LET start == timestamp_to_half_hour_idx(event.start)
        end   == IF event.end.ord > event.start.ord THEN NumSlots
                 ELSE timestamp_to_half_hour_idx(event.end)
        day   == DayOf(event)
    IN  [sched EXCEPT ![day + 1] =
            SliceAssign(@, start, end, Repeat("o", end - start))]

\* One pass of the for loop over one parsed session.
MarkEvent(sched, event) ==
    LET start == timestamp_to_half_hour_idx(event.start)
        end   == timestamp_to_half_hour_idx(event.end)
        day   == DayOf(event)
    IN  [sched EXCEPT ![day + 1] =
            SliceAssign(@, start, end, Repeat("o", end - start))]

JoinRows(sched) == [d \in 1..Len(sched) |-> Join(sched[d])]

RECURSIVE MarkAll(_, _)
MarkAll(sched, events) ==
    IF events = <<>> THEN sched
    ELSE MarkAll(MarkEvent(sched, Head(events)), Tail(events))

\* form_schedule as a function of events['items']: whether it raises, and
\* the list of strings it returns when it does not.
FormSchedule(its) ==
    IF \E i \in 1..Len(its) : FilterRaises(its[i])
    THEN [raised |-> TRUE, value |-> <<>>]
    ELSE LET kept == SelectSeq(its, Keep)
         IN  IF \E i \in 1..Len(kept) : SessionRaises(kept[i])
             THEN [raised |-> TRUE, value |-> <<>>]
             ELSE [raised |-> FALSE,
                   value  |-> JoinRows(MarkAll(EmptySchedule,
                                [i \in 1..Len(kept) |-> ParseSession(kept[i])]))]

\* ------------------------------------------------------------- inputs

Str(prefix) == prefix \o OfficeHours

CS101 == <<"C", "S", "1", "0", "1", " ">>

Lecture == <<"L", "e", "c", "t", "u", "r", "e">>

LowerCase == <<"o", "f", "f", "i", "c", "e", " ", "h", "o", "u", "r", "s">>

\* 2024-01-07, a Sunday: ordinal 738892.
Sunday == 105556 * 7

TS(ord, h, m) == [kind |-> "iso", ord |-> ord, hour |-> h, minute |-> m, off |-> 0]

TSOff(ord, h, m, off) ==
    [kind |-> "iso", ord |-> ord, hour |-> h, minute |-> m, off |-> off]

Malformed == [kind |-> "malformed", ord |-> 0, hour |-> 0, minute |-> 0, off |-> 0]

Missing == [kind |-> "missing", ord |-> 0, hour |-> 0, minute |-> 0, off |-> 0]

Ev(status, summary, start, end) ==
    [status |-> status, hasSummary |-> TRUE, summary |-> summary,
     start |-> start, end |-> end]

\* An event without a summary.
EvNoSummary(status, start, end) ==
    [status |-> status, hasSummary |-> FALSE, summary |-> <<>>,
     start |-> start, end |-> end]

\* The events a calendar response is drawn from.
EventUniverse ==
    { \* the concrete scenario of the spec: Sunday 14:00-15:30
      Ev("confirmed", Str(CS101), TS(Sunday, 14, 0), TS(Sunday, 15, 30)),
      \* the same, cancelled
      Ev("cancelled", Str(CS101), TS(Sunday, 14, 0), TS(Sunday, 15, 30)),
      \* overlaps the first one
      Ev("tentative", Str(<<>>), TS(Sunday, 15, 0), TS(Sunday, 16, 0)),
      \* no marker in the summary, unparsable; wrong case
      Ev("confirmed", Lecture, Malformed, Missing),
      Ev("confirmed", LowerCase, TS(Sunday + 1, 9, 0), TS(Sunday + 1, 10, 0)),
      \* Monday, off the half-hour at both ends
      Ev("confirmed", Str(CS101), TS(Sunday + 1, 15, 10), TS(Sunday + 1, 16, 45)),
      \* Friday, shorter than a slot
      Ev("confirmed", Str(<<>>), TS(Sunday + 5, 14, 0), TS(Sunday + 5, 14, 20)),
      \* Saturday 23:00 to midnight
      Ev("confirmed", Str(<<>>), TS(Sunday + 6, 23, 0), TS(Sunday + 7, 0, 0)),
      \* Tuesday 10:00 to Wednesday 11:00
      Ev("confirmed", Str(<<>>), TS(Sunday + 2, 10, 0), TS(Sunday + 3, 11, 0)),
      \* Tuesday 10:00 to the next Tuesday 11:00
      Ev("confirmed", Str(<<>>), TS(Sunday + 2, 10, 0), TS(Sunday + 9, 11, 0)),
      \* end before start
      Ev("confirmed", Str(<<>>), TS(Sunday + 4, 12, 0), TS(Sunday + 4, 11, 0)),
      \* unparsable start; absent end.dateTime
      Ev("confirmed", Str(CS101), Malformed, TS(Sunday, 15, 30)),
      Ev("confirmed", Str(CS101), TS(Sunday, 14, 0), Missing),
      \* cancelled, unparsable; cancelled, no summary
      Ev("cancelled", Str(CS101), Malformed, Missing),
      EvNoSummary("cancelled", TS(Sunday, 14, 0), TS(Sunday, 15, 30)),
      \* Wednesday 10:00 UTC to 13:00 at UTC+2, one hour later
      Ev("confirmed", Str(<<>>), TS(Sunday + 3, 10, 0),
         TSOff(Sunday + 3, 13, 0, 120))
    }

RECURSIVE SeqsUpTo(_, _)
SeqsUpTo(S, n) ==
    IF n = 0 THEN {<<>>}
    ELSE LET shorter == SeqsUpTo(S, n - 1)
         IN  shorter \cup {Append(s, e) : s \in shorter, e \in S}

EventLists == SeqsUpTo(EventUniverse, MaxEvents)

\* What requests.get can come back with.
Responses ==
    { [ok |-> FALSE, ctype |-> "json", decodes |-> TRUE, hasItems |-> TRUE,
       items |-> <<>>],
      [ok |-> TRUE, ctype |-> "absent", decodes |-> TRUE, hasItems |-> TRUE,
       items |-> <<>>],
      [ok |-> TRUE, ctype |-> "other", decodes |-> TRUE, hasItems |-> TRUE,
       items |-> <<>>],
      [ok |-> TRUE, ctype |-> "json", decodes |-> FALSE, hasItems |-> FALSE,
       items |-> <<>>],
      [ok |-> TRUE, ctype |-> "json", decodes |-> TRUE, hasItems |-> FALSE,
       items |-> <<>>] }
    \cup { [ok |-> TRUE, ctype |-> "json", decodes |-> TRUE, hasItems |-> TRUE,
            items |-> its] : its \in EventLists }

NoResponse ==
    [ok |-> FALSE, ctype |-> "absent", decodes |-> FALSE, hasItems |-> FALSE,
     items |-> <<>>]

\* ------------------------------------------------ auth-file discovery
\* Paths and file contents are strings: sequences of characters.

Root == <<"/">>

IsSlashes(p) == \A i \in 1..Len(p) : p[i] = "/"

RECURSIVE RStripSlash(_)
RStripSlash(p) ==
    IF p # <<>> /\ p[Len(p)] = "/" THEN RStripSlash(SubSeq(p, 1, Len(p) - 1))
    ELSE p

\* os.path.dirname (posixpath): everything up to the last "/", without
\* trailing slashes unless it is all slashes.
dirname(p) ==
    LET cut  == {i \in 1..Len(p) : p[i] = "/"}
        last == IF cut = {} THEN 0 ELSE CHOOSE i \in cut : \A j \in cut : j <= i
        head == SubSeq(p, 1, last)
    IN  IF head # <<>> /\ ~IsSlashes(head) THEN RStripSlash(head) ELSE head

\* os.path.join(a, b) (posixpath): an absolute b replaces a.
join(a, b) ==
    IF b # <<>> /\ b[1] = "/" THEN b
    ELSE IF a = <<>> \/ a[Len(a)] = "/" THEN a \o b
    ELSE a \o <<"/">> \o b

Whitespace == {" ", "\t", "\n"}

\* str.strip()
RECURSIVE Strip(_)
Strip(t) ==
    IF t # <<>> /\ t[1] \in Whitespace THEN Strip(Tail(t))
    ELSE IF t # <<>> /\ t[Len(t)] \in Whitespace
         THEN Strip(SubSeq(t, 1, Len(t) - 1))
    ELSE t

\* os.path.isfile of a path, relative paths resolved against the current
\* directory.
isfile(p) == join(cwd, p) \in DOMAIN files

\* open(p).read()
read(p) == files[join(cwd, p)]

\* The three copies of the discovery function.
AuthFunctions == {"get_auth", "get_api_session", "get_api_key"}

\* Directories of the process: the home directory, and current directories
\* in it, beside it and outside it.
HomeDir == <<"/", "h", "/", "u">>

WorkDirs ==
    { HomeDir,
      HomeDir \o <<"/", "p">>,
      HomeDir \o <<"/", "p", "/", "q">>,
      \* the home path is a prefix of the name of a sibling
      HomeDir \o <<"u", "/", "p">>,
      \* the home path occurs inside the path
      <<"/", "m">> \o HomeDir \o <<"/", "p">>,
      <<"/", "t">> }

\* A bare file name, and one with a directory part.
FileNames == { <<".", "k">>, <<"d", "/", ".", "k">> }

RECURSIVE AncestorsOrSelf(_)
AncestorsOrSelf(d) ==
    IF dirname(d) = d THEN {d} ELSE {d} \cup AncestorsOrSelf(dirname(d))

\* What the file of directory d holds: the directory's own path, in white
\* space.
Content(d) == <<" ">> \o d \o <<"\n">>

FilesIn(D, name) ==
    [f \in {join(d, name) : d \in D} |->
        Content(CHOOSE d \in D : join(d, name) = f)]

\* The schedule command is not running.
SchedIdle ==
    /\ pc = "idle"
    /\ gcal_id = FALSE
    /\ response = NoResponse
    /\ items = <<>>
    /\ oh_sessions = <<>>
    /\ parsed = <<>>
    /\ schedule = <<>>
    /\ k = 0
    /\ result = <<>>
    /\ error = "none"
    /\ putCount = 0
    /\ putBody = <<>>

\* No request of a QueueAPIClient is under way.
ReqIdle ==
    /\ rpc = "idle"
    /\ client = "none"
    /\ method = "none"
    /\ api_session = <<>>
    /\ kwargs = [hasHeaders |-> FALSE, headers |-> <<>>]
    /\ headers = <<>>
    /\ sent = <<>>

AuthIdle ==
    /\ apc = "idle"
    /\ fn = "none"
    /\ cwd = <<>>
    /\ home = <<>>
    /\ files = <<>>
    /\ filename = <<>>
    /\ path = <<>>
    /\ current_dir = <<>>
    /\ auth = <<>>

\* A call of one of the functions in some process and file system.
AuthInit ==
    /\ apc = "begin"
    /\ fn \in AuthFunctions
    /\ cwd \in WorkDirs
    /\ home = HomeDir
    /\ filename \in FileNames
    /\ \E D \in SUBSET AncestorsOrSelf(cwd) : files = FilesIn(D, filename)
    /\ path = filename
    /\ current_dir = <<>>
    /\ auth = <<>>
    /\ SchedIdle
    /\ ReqIdle

\* The two checks before the search, then the generator's first lines.
AuthCheck ==
    /\ apc = "begin"
    /\ IF dirname(filename) # <<>> /\ ~isfile(filename)
       THEN apc' = "raised" /\ UNCHANGED current_dir
       ELSE IF ~Contains(home, cwd)
       THEN apc' = "raised" /\ UNCHANGED current_dir
       ELSE apc' = "walk" /\ current_dir' = cwd
    /\ UNCHANGED <<fn, cwd, home, files, filename, path, auth>>
    /\ UNCHANGED <<schedVars, reqVars>>

\* The path the loop body probes in directory d: get_auth joins d with its
\* own variable filename, which holds the path probed before; the other two
\* join d with the argument.
Probe(d) ==
    IF fn = "get_auth" THEN join(d, path) ELSE join(d, filename)

\* One directory of the walk: the generator yields current_dir (home_dir
\* last), the loop body probes it.
AuthWalk ==
    /\ apc = "walk"
    /\ path' = Probe(current_dir)
    /\ IF isfile(Probe(current_dir))
       THEN /\ auth' = Strip(read(Probe(current_dir)))
            /\ apc' = "returned"
            /\ UNCHANGED current_dir
       ELSE IF current_dir = home
       THEN /\ apc' = "raised"
            /\ UNCHANGED <<current_dir, auth>>
       ELSE /\ current_dir' = dirname(current_dir)
            /\ UNCHANGED <<apc, auth>>
    /\ UNCHANGED <<fn, cwd, home, files, filename>>
    /\ UNCHANGED <<schedVars, reqVars>>

AuthNext == AuthCheck \/ AuthWalk

\* The process runs on while it can.
AuthSpec == AuthInit /\ [][AuthNext]_vars /\ WF_vars(AuthNext)

\* -------------------------------------------- requests of QueueAPIClient
\* A dict is a function from its keys; kwargs is modelled by its "headers"
\* entry: whether the key is there and the dict it holds.

\* f"session={self.api_session}"
SessionCookie(s) == <<"s", "e", "s", "s", "i", "o", "n", "=">> \o s

\* d[key] = v
SetItem(d, key, v) ==
    [h \in DOMAIN d \cup {key} |-> IF h = key THEN v ELSE d[h]]

\* The two modules that define a class QueueAPIClient.
ClientModules == {"queue_api_client", "api_client"}

Methods == {"get", "put"}

Sessions == { <<"a">>, <<"b">> }

HeaderNames == {"Cookie", "Accept"}

\* Header values a caller passes: the cookie of a session, another text.
HeaderValues == { SessionCookie(s) : s \in Sessions } \cup { <<"x">> }

\* The dicts a caller passes as headers.
HeaderDicts == UNION { [D -> HeaderValues] : D \in SUBSET HeaderNames }

NoHeaders == [hasHeaders |-> FALSE, headers |-> <<>>]

\* client.get(path, ...) or client.put(path, ...), with or without a
\* headers argument.
ReqInit ==
    /\ rpc = "called"
    /\ client \in ClientModules
    /\ method \in Methods
    /\ api_session \in Sessions
    /\ \/ kwargs = NoHeaders
       \/ \E d \in HeaderDicts : kwargs = [hasHeaders |-> TRUE, headers |-> d]
    /\ headers = <<>>
    /\ sent = <<>>
    /\ SchedIdle
    /\ AuthIdle

\* do_request up to the call of the requests library.  api_client.py:
\* prepare_auth sets kwargs['headers']['Cookie'], a KeyError when kwargs
\* has no 'headers'.  queue_api_client.py: a copy of the popped headers, {}
\* by default, gets the Cookie.
ReqAuth ==
    /\ rpc = "called"
    /\ IF client = "api_client"
       THEN IF ~kwargs.hasHeaders
            THEN /\ rpc' = "raised"
                 /\ UNCHANGED <<kwargs, headers>>
            ELSE /\ kwargs' = [kwargs EXCEPT !.headers =
                                 SetItem(@, "Cookie", SessionCookie(api_session))]
                 /\ rpc' = "ready"
                 /\ UNCHANGED headers
       ELSE /\ headers' = SetItem(kwargs.headers, "Cookie",
                                  SessionCookie(api_session))
            /\ kwargs' = NoHeaders
            /\ rpc' = "ready"
    /\ UNCHANGED <<client, method, api_session, sent>>
    /\ UNCHANGED <<schedVars, authVars>>

\* The headers method_func is called with: api_client.py passes kwargs on,
\* queue_api_client.py passes headers=headers.
PassedHeaders == IF client = "api_client" THEN kwargs.headers ELSE headers

\* method_func(url, ...) and the check of the response: SystemExit unless
\* it is OK.
ReqSend ==
    /\ rpc = "ready"
    /\ sent' = Append(sent, [method |-> method, headers |-> PassedHeaders])
    /\ \/ rpc' = "returned"
       \/ rpc' = "exit"
    /\ UNCHANGED <<client, method, api_session, kwargs, headers>>
    /\ UNCHANGED <<schedVars, authVars>>

ReqNext == ReqAuth \/ ReqSend

ReqSpec == ReqInit /\ [][ReqNext]_vars

\* ------------------------------------------------------------ actions

Init ==
    /\ pc = "start"
    /\ gcal_id \in BOOLEAN
    /\ response = NoResponse
    /\ items = <<>>
    /\ oh_sessions = <<>>
    /\ parsed = <<>>
    /\ schedule = <<>>
    /\ k = 0
    /\ result = <<>>
    /\ error = "none"
    /\ putCount = 0
    /\ putBody = <<>>
    /\ AuthIdle
    /\ ReqIdle

\* Mutant: the status of the response is not checked.
GetExits_AnyStatus(r) == r.ctype # "json" \/ ~r.decodes

\* GoogleCalendarAPIClient.do_request after the call: SystemExit unless the
\* response is OK and carries decodable JSON.
GetExits(r) == ~r.ok \/ r.ctype # "json" \/ ~r.decodes

\* schedule(): the -g check, the calendar client (its key file may be
\* missing) and the GET.
Get ==
    /\ pc = "start"
    /\ \/ /\ ~gcal_id
          /\ pc' = "exit" /\ error' = "SystemExit"
          /\ UNCHANGED response
       \/ /\ gcal_id
          /\ pc' = "raised" /\ error' = "KeyFileNotFound"
          /\ UNCHANGED response
       \/ /\ gcal_id
          /\ \E r \in Responses :
                /\ response' = r
                /\ IF GetExits(r)
                   THEN pc' = "exit" /\ error' = "SystemExit"
                   ELSE pc' = "filter" /\ error' = "none"
    /\ UNCHANGED <<gcal_id, items, oh_sessions, parsed, schedule, k, result,
                   putCount, putBody>>
    /\ UNCHANGED <<authVars, reqVars>>

\* form_schedule, lines 25-29: events['items'] and the filter.
Filter ==
    /\ pc = "filter"
    /\ IF ~response.hasItems
       THEN /\ pc' = "raised" /\ error' = "KeyError"
            /\ UNCHANGED <<items, oh_sessions>>
       ELSE /\ items' = response.items
            /\ IF \E i \in 1..Len(response.items) : FilterRaises(response.items[i])
               THEN /\ pc' = "raised" /\ error' = "KeyError"
                    /\ UNCHANGED oh_sessions
               ELSE /\ oh_sessions' = SelectSeq(response.items, Keep)
                    /\ pc' = "parse"
                    /\ UNCHANGED error
    /\ UNCHANGED <<gcal_id, response, parsed, schedule, k, result, putCount,
                   putBody>>
    /\ UNCHANGED <<authVars, reqVars>>

\* One element of the list comprehension of lines 30-37.
Parse ==
    /\ pc = "parse"
    /\ Len(parsed) < Len(oh_sessions)
    /\ LET x == oh_sessions[Len(parsed) + 1]
       IN  IF SessionRaises(x)
           THEN /\ pc' = "raised" /\ error' = SessionError(x)
                /\ UNCHANGED parsed
           ELSE /\ parsed' = Append(parsed, ParseSession(x))
                /\ UNCHANGED <<pc, error>>
    /\ UNCHANGED <<gcal_id, response, items, oh_sessions, schedule, k, result,
                   putCount, putBody>>
    /\ UNCHANGED <<authVars, reqVars>>

\* Line 38, once every session is parsed.
Allocate ==
    /\ pc = "parse"
    /\ Len(parsed) = Len(oh_sessions)
    /\ schedule' = EmptySchedule
    /\ k' = 0
    /\ pc' = "loop"
    /\ UNCHANGED <<gcal_id, response, items, oh_sessions, parsed, result,
                   error, putCount, putBody>>
    /\ UNCHANGED <<authVars, reqVars>>

\* Lines 39-44, one event.
Mark ==
    /\ pc = "loop"
    /\ k < Len(parsed)
    /\ schedule' = MarkEvent(schedule, parsed[k + 1])
    /\ k' = k + 1
    /\ UNCHANGED <<pc, gcal_id, response, items, oh_sessions, parsed, result,
                   error, putCount, putBody>>
    /\ UNCHANGED <<authVars, reqVars>>

\* Line 45.
Return ==
    /\ pc = "loop"
    /\ k = Len(parsed)
    /\ result' = JoinRows(schedule)
    /\ pc' = "returned"
    /\ UNCHANGED <<gcal_id, response, items, oh_sessions, parsed, schedule, k,
                   error, putCount, putBody>>
    /\ UNCHANGED <<authVars, reqVars>>

\* schedule(), lines 48-50: the queue client (its session file may be
\* missing) and the PUT, whose response may not be OK.
Put ==
    /\ pc = "returned"
    /\ \/ /\ pc' = "raised" /\ error' = "SessionFileNotFound"
          /\ UNCHANGED <<putCount, putBody>>
       \/ /\ putCount' = putCount + 1
          /\ putBody' = result
          /\ \/ pc' = "done" /\ UNCHANGED error
             \/ pc' = "exit" /\ error' = "SystemExit"
    /\ UNCHANGED <<gcal_id, response, items, oh_sessions, parsed, schedule, k,
                   result>>
    /\ UNCHANGED <<authVars, reqVars>>

Next == Get \/ Filter \/ Parse \/ Allocate \/ Mark \/ Return \/ Put

Spec == Init /\ [][Next]_vars

\* ------------------------------------------- the vocabulary of the claims

\* A qualifying event: not cancelled, the summary contains "Office Hours".
IsQualifying(e) ==
    e.status # "cancelled" /\ e.hasSummary /\ Contains(OfficeHours, e.summary)

WellFormed(e) == e.start.kind = "iso" /\ e.end.kind = "iso"

SlotIdx(ts) == ts.hour * 2 + (IF ts.minute < 30 THEN 0 ELSE 1)

Row(ts) == (Weekday(ts) + 1) % 7

Days == 0..6

Slots == 0..47

\* The indices of the qualifying events of a list.
Qualifying(its) == {n \in 1..Len(its) : IsQualifying(its[n])}

IsGrid(g) ==
    /\ Len(g) = 7
    /\ \A d \in 1..7 :
          /\ Len(g[d]) = 48
          /\ \A i \in 1..48 : g[d][i] \in {"o", "c"}

AllClosed == [d \in 1..7 |-> [i \in 1..48 |-> "c"]]

\* The pass of the loop over parsed[k + 1].
MarkStep == pc = "loop" /\ k < Len(parsed) /\ k' = k + 1

\* C1: the grid has 7 rows of 48 cells 'o' or 'c' from its allocation on and
\* after every event of the loop, and form_schedule returns 7 strings of 48
\* characters 'o' or 'c'.
C1_Shape ==
    /\ pc \in {"loop", "returned", "done"} => IsGrid(schedule)
    /\ pc \in {"returned", "done"} => IsGrid(result)

C1_Witness ==
    /\ pc = "returned"
    /\ k = 2
    /\ \E n \in 1..Len(items) : ~IsQualifying(items[n])
    /\ \E n \in 1..Len(parsed) :
          SlotIdx(parsed[n].end) <= SlotIdx(parsed[n].start)
    /\ \E n \in 1..Len(parsed) : parsed[n].end.ord > parsed[n].start.ord

\* C2: slot i of row d of the result is 'o' exactly when a qualifying event
\* of the input starts on day d and has start_idx <= i < end_idx; every
\* other slot is 'c'.
C2_SlotIff ==
    pc = "returned" =>
        LET Q == Qualifying(items)
        IN  \A d \in Days, i \in Slots :
                LET open == \E n \in Q :
                                /\ Row(items[n].start) = d
                                /\ SlotIdx(items[n].start) <= i
                                /\ i < SlotIdx(items[n].end)
                IN  result[d + 1][i + 1] = (IF open THEN "o" ELSE "c")

C2_Witness ==
    /\ pc = "returned"
    /\ \E n \in 1..Len(items) :
          /\ IsQualifying(items[n])
          /\ items[n].end.minute = 30
          /\ result[Row(items[n].start) + 1][SlotIdx(items[n].end)] = "o"
          /\ result[Row(items[n].start) + 1][SlotIdx(items[n].end) + 1] = "c"

\* C3: cancelled events and events without "Office Hours" in the summary do
\* not affect the result: it is form_schedule of the list without them, and
\* with no qualifying event it is 7 strings of 48 'c'.
C3_NonQualifyingIgnored ==
    pc = "returned" =>
        LET kept == SelectSeq(items, IsQualifying)
        IN  /\ FormSchedule(kept) = [raised |-> FALSE, value |-> result]
            /\ kept = <<>> => result = AllClosed

C3_Witness ==
    /\ pc = "returned"
    /\ \E n \in 1..Len(items) : items[n].status = "cancelled"
    /\ \E n \in 1..Len(items) :
          items[n].status # "cancelled" /\ ~IsQualifying(items[n])
    /\ \E n \in 1..Len(items) : IsQualifying(items[n])
    /\ result # AllClosed

\* C4: form_schedule returns the same grid for every permutation of its
\* input list.
C4_Commutative ==
    pc = "returned" =>
        \A p \in Permutations(1..Len(items)) :
            FormSchedule([n \in 1..Len(items) |-> items[p[n]]])
                = [raised |-> FALSE, value |-> result]

C4_Witness ==
    /\ pc = "returned"
    /\ Len(parsed) = 3
    /\ parsed[1] # parsed[2]
    /\ Row(parsed[1].start) = Row(parsed[2].start)
    /\ SlotIdx(parsed[2].start) < SlotIdx(parsed[1].end)
    /\ SlotIdx(parsed[1].start) < SlotIdx(parsed[2].start)

\* C5: in the loop a slot that is 'o' stays 'o' under every later event, and
\* an event identical to one already processed leaves the grid unchanged.
C5_Union ==
    [][MarkStep =>
        /\ \A d \in 1..7, i \in 1..48 :
              schedule[d][i] = "o" => schedule'[d][i] = "o"
        /\ (\E j \in 1..k : parsed[j] = parsed[k + 1]) => schedule' = schedule
      ]_vars

C5_Witness ==
    /\ pc = "loop"
    /\ k = 3
    /\ parsed[3] = parsed[1]
    /\ parsed[2] # parsed[1]
    /\ Row(parsed[2].start) = Row(parsed[1].start)
    /\ SlotIdx(parsed[1].start) < SlotIdx(parsed[2].start)
    /\ SlotIdx(parsed[2].start) < SlotIdx(parsed[1].end)
    /\ schedule[Row(parsed[1].start) + 1][SlotIdx(parsed[1].start) + 1] = "o"

\* C6: the pass over one qualifying event changes only row
\* (weekday_of(start) + 1) mod 7 (row 1 for a Monday, row 0 for a Sunday):
\* slots start_idx .. end_idx - 1 of it become 'o', every other slot of the
\* grid keeps its value, and with end_idx <= start_idx nothing changes and
\* nothing is raised.
C6_Frame ==
    [][MarkStep =>
        LET e == parsed[k + 1]
            r == Row(e.start)
            s == SlotIdx(e.start)
            t == SlotIdx(e.end)
        IN  /\ Weekday(e.start) = 0 => r = 1
            /\ Weekday(e.start) = 6 => r = 0
            /\ \A d \in Days \ {r} : schedule'[d + 1] = schedule[d + 1]
            /\ Len(schedule'[r + 1]) = 48
            /\ \A i \in Slots :
                  schedule'[r + 1][i + 1] =
                      (IF s <= i /\ i < t THEN "o" ELSE schedule[r + 1][i + 1])
            /\ t > s =>
                  Cardinality({i \in Slots : /\ s <= i /\ i < t
                                             /\ schedule'[r + 1][i + 1] = "o"})
                      = t - s
            /\ t <= s => schedule' = schedule
            /\ pc' = "loop" /\ error' = "none"
      ]_vars

C6_Witness ==
    /\ pc = "loop"
    /\ k = 3
    /\ \E n \in 1..3 :
          /\ Weekday(parsed[n].start) = 0
          /\ schedule[2][SlotIdx(parsed[n].start) + 1] = "o"
    /\ \E n \in 1..3 :
          /\ Weekday(parsed[n].start) = 6
          /\ schedule[1][SlotIdx(parsed[n].start) + 1] = "o"
    /\ \E n \in 1..3 : SlotIdx(parsed[n].end) <= SlotIdx(parsed[n].start)

\* Minutes since midnight, and the instant in minutes (UTC).
MinuteOfDay(ts) == ts.hour * 60 + ts.minute

Instant(ts) == ts.ord * 1440 + MinuteOfDay(ts) - ts.off

\* C7: for a qualifying event with start < end on one calendar day, every
\* half-hour slot of that day during part of which the event is active is
\* 'o' in the result.
C7_ActiveSlotsOpen ==
    pc = "returned" =>
        \A n \in 1..Len(items) :
            (/\ IsQualifying(items[n])
             /\ Instant(items[n].start) < Instant(items[n].end)
             /\ items[n].start.ord = items[n].end.ord)
            => \A i \in Slots :
                  (/\ 30 * i < MinuteOfDay(items[n].end)
                   /\ MinuteOfDay(items[n].start) < 30 * i + 30)
                  => result[Row(items[n].start) + 1][i + 1] = "o"

\* What C8 says of the pass over an event that ends on a later day, but for
\* the end day's row.
CrossMidnightStartRowOnly ==
    LET e == parsed[k + 1]
        r == Row(e.start)
        s == SlotIdx(e.start)
        t == SlotIdx(e.end)
    IN  /\ \A d \in Days \ {r} : schedule'[d + 1] = schedule[d + 1]
        /\ \A i \in Slots :
              schedule'[r + 1][i + 1] =
                  (IF s <= i /\ i < t THEN "o" ELSE schedule[r + 1][i + 1])
        /\ t <= s => schedule' = schedule

\* C8 as stated: the pass over a qualifying event that ends on a later
\* calendar day marks only the row of the start day, over
\* [start_idx, end_idx) with end_idx from the end's hour and minute alone,
\* marks nothing when end_idx <= start_idx, and marks no slot of the end
\* day's row.
C8_Original ==
    [][(MarkStep /\ parsed[k + 1].end.ord > parsed[k + 1].start.ord) =>
        /\ CrossMidnightStartRowOnly
        /\ schedule'[Row(parsed[k + 1].end) + 1]
              = schedule[Row(parsed[k + 1].end) + 1]
      ]_vars

\* C8, amended: as C8, the end day's row being left alone when the end day
\* is another day of the week than the start day.
C8_CrossMidnight ==
    [][(MarkStep /\ parsed[k + 1].end.ord > parsed[k + 1].start.ord) =>
        /\ CrossMidnightStartRowOnly
        /\ Row(parsed[k + 1].end) # Row(parsed[k + 1].start) =>
              schedule'[Row(parsed[k + 1].end) + 1]
                  = schedule[Row(parsed[k + 1].end) + 1]
      ]_vars

C8_Witness ==
    /\ pc = "loop"
    /\ k = 2
    \* 23:00 to 00:00 of the next day: nothing marked
    /\ parsed[1].end.ord = parsed[1].start.ord + 1
    /\ MinuteOfDay(parsed[1].end) = 0
    /\ \A i \in 1..48 : schedule[Row(parsed[1].start) + 1][i] = "c"
    \* 10:00 to 11:00 of the next day: two slots of the start day
    /\ parsed[2].end.ord = parsed[2].start.ord + 1
    /\ SlotIdx(parsed[2].end) = SlotIdx(parsed[2].start) + 2
    /\ schedule[Row(parsed[2].start) + 1][SlotIdx(parsed[2].start) + 1] = "o"
    /\ \A i \in 1..48 : schedule[Row(parsed[2].end) + 1][i] = "c"

\* C9: the PUT is issued at most once, only after an OK GET and with the
\* complete grid form_schedule returned; after a GET that is not OK, or
\* when form_schedule raised, no PUT was issued and no grid, not even a
\* partial one, was returned.
C9_NoPartialWrite ==
    /\ putCount <= 1
    /\ putCount = 1 =>
          /\ response.ok
          /\ pc \in {"done", "exit"}
          /\ IsGrid(result)
          /\ putBody = result
    /\ (pc = "exit" /\ ~response.ok) => putCount = 0 /\ result = <<>>
    /\ (pc = "raised" /\ error \in {"KeyError", "ValueError"}) =>
          putCount = 0 /\ result = <<>> /\ putBody = <<>>
    /\ pc \in {"start", "filter", "parse", "loop", "returned"} => putCount = 0

C9_Witness ==
    /\ pc = "done"
    /\ putCount = 1
    /\ putBody # AllClosed
    /\ \E n \in 1..Len(items) : ~IsQualifying(items[n])

\* C10: when a qualifying event has a start or end that is malformed or
\* absent, form_schedule does not get past parsing: it raises KeyError or
\* ValueError, allocates and returns no grid, and the event is not among
\* the parsed sessions.
C10_ParseErrorPropagates ==
    (/\ pc \notin {"start", "exit"}
     /\ \E n \in 1..Len(items) : IsQualifying(items[n]) /\ ~WellFormed(items[n]))
    => /\ pc \in {"parse", "raised"}
       /\ pc = "raised" => error \in {"KeyError", "ValueError"}
       /\ pc = "parse" => Len(parsed) < Len(oh_sessions)
       /\ schedule = <<>>
       /\ result = <<>>
       /\ putCount = 0
       /\ Len(parsed) < Cardinality({n \in 1..Len(items) : IsQualifying(items[n])})

C10_Witness ==
    /\ pc = "raised"
    /\ error = "KeyError"
    /\ Len(parsed) = 2
    /\ \E n \in 1..Len(items) :
          /\ IsQualifying(items[n])
          /\ items[n].start.kind = "iso"
          /\ items[n].end.kind = "missing"

\* C14: slot 47 (23:30-24:00) of every row of the result is 'c'.
C14_LastSlotClosed ==
    pc = "returned" => \A d \in Days : result[d + 1][48] = "c"

\* A qualifying event that runs past midnight was in session during the last
\* half hour of its start day, and the result has open slots.
C14_Witness ==
    /\ pc = "returned"
    /\ result # AllClosed
    /\ \E n \in Qualifying(items) :
          /\ items[n].end.ord = items[n].start.ord + 1
          /\ SlotIdx(items[n].start) = 46
          /\ result[Row(items[n].start) + 1][48] = "c"

\* The event is in session during part of slot i of its start day: it
\* occupies the minutes [start, start + duration) counted from the start
\* day's midnight.
ActiveInSlot(e, i) ==
    /\ MinuteOfDay(e.start) < 30 * i + 30
    /\ 30 * i < MinuteOfDay(e.start) + (Instant(e.end) - Instant(e.start))

\* Every 'o' of the result has a qualifying event that starts on its day
\* and is in session during its half hour.
OpenSlotsInSession ==
    LET Q == Qualifying(items)
    IN  \A d \in Days, i \in Slots :
            result[d + 1][i + 1] = "o" =>
                \E n \in Q : /\ Row(items[n].start) = d
                             /\ ActiveInSlot(items[n], i)

\* C15 as stated: when every qualifying event starts before it ends, every
\* 'o' of the result has a qualifying event that starts on its day and is
\* in session during its half hour.
C15_Original ==
    (/\ pc = "returned"
     /\ \A n \in Qualifying(items) :
           Instant(items[n].start) < Instant(items[n].end))
    => OpenSlotsInSession

\* C15, amended: as C15, for inputs whose qualifying events also carry the
\* same UTC offset at their start and at their end.
C15_Sound ==
    (/\ pc = "returned"
     /\ \A n \in Qualifying(items) :
           /\ Instant(items[n].start) < Instant(items[n].end)
           /\ items[n].start.off = items[n].end.off)
    => OpenSlotsInSession

C15_Witness ==
    /\ pc = "returned"
    /\ \A n \in Qualifying(items) :
          /\ Instant(items[n].start) < Instant(items[n].end)
          /\ items[n].start.off = items[n].end.off
    /\ \E n \in Qualifying(items) :
          /\ items[n].end.ord > items[n].start.ord
          /\ result[Row(items[n].start) + 1][SlotIdx(items[n].start) + 1] = "o"
    /\ \E n \in Qualifying(items) :
          /\ items[n].start.minute \notin {0, 30}
          /\ result[Row(items[n].start) + 1][SlotIdx(items[n].start) + 1] = "o"

\* An event the filter drops: cancelled, or with a summary that lacks
\* "Office Hours".
Ignorable(e) ==
    e.status = "cancelled" \/ (e.hasSummary /\ ~Contains(OfficeHours, e.summary))

NotIgnorable(e) == ~Ignorable(e)

\* C16: an event that is cancelled (with or without a summary) or whose
\* summary lacks "Office Hours" never makes form_schedule fail, whatever its
\* start and end: a failure is always due to another event, and the result
\* is that of the list without those events.
C16_FilterBeforeParse ==
    /\ (pc = "raised" /\ error \in {"KeyError", "ValueError"} /\ response.hasItems)
       => \E n \in 1..Len(items) :
             /\ NotIgnorable(items[n])
             /\ ~items[n].hasSummary \/ ~WellFormed(items[n])
    /\ (/\ pc \in {"parse", "loop", "returned", "done"}
        /\ \A n \in 1..Len(items) :
              NotIgnorable(items[n]) => items[n].hasSummary /\ WellFormed(items[n]))
       => error = "none"
    /\ pc = "returned" =>
          FormSchedule(SelectSeq(items, NotIgnorable))
              = [raised |-> FALSE, value |-> result]

C16_Witness ==
    /\ pc = "returned"
    /\ result # AllClosed
    /\ \E n \in 1..Len(items) :
          items[n].status = "cancelled" /\ ~items[n].hasSummary
    /\ \E n \in 1..Len(items) :
          /\ items[n].status # "cancelled"
          /\ Ignorable(items[n])
          /\ ~WellFormed(items[n])

\* The directories from the current one up to and including home, when the
\* current directory is home or below it; those that hold the file.
Searched == {d \in AncestorsOrSelf(cwd) : home \in AncestorsOrSelf(d)}

Having == {d \in Searched : join(d, filename) \in DOMAIN files}

Nearest == CHOOSE d \in Having : \A e \in Having : Len(e) <= Len(d)

BareName == dirname(filename) = <<>>

\* C11: for a bare file name and a current directory in the home directory,
\* discovery returns the stripped contents of the file of the nearest
\* directory, from the current one up to home, that has one.
C11_NearestFound ==
    (/\ apc \in {"returned", "raised"}
     /\ BareName
     /\ Searched # {}
     /\ Having # {})
    => apc = "returned" /\ auth = Nearest

\* The same of the two copies that join the directory with the argument.
NearestFoundByArgument ==
    fn \in {"get_api_session", "get_api_key"} => C11_NearestFound

\* C12: when no file of the name exists, discovery ends by raising its
\* NotFound exception.
C12_Terminates == (DOMAIN files = {}) => <>(apc = "raised")

\* While the walk runs, home is the walk's directory or above it: what the
\* walk needs in order to meet home, dirname only going up.
WalkBelowHome == apc = "walk" => home \in AncestorsOrSelf(current_dir)

\* C13: every request handed to the requests library carries the Cookie
\* of the client's session, and no call made without headers fails before
\* its request is sent.
C13_CookieAlwaysSent ==
    /\ \A i \in 1..Len(sent) :
          /\ "Cookie" \in DOMAIN sent[i].headers
          /\ sent[i].headers["Cookie"] = SessionCookie(api_session)
    /\ ~(rpc = "raised" /\ kwargs = NoHeaders /\ sent = <<>>)

\* The same of the class of queue_api_client.py.
CookieSentByQueueModule ==
    client = "queue_api_client" => C13_CookieAlwaysSent

====
